---- MODULE Spec2Model ----
(***************************************************************************)
(* The event-driven simulation core of the AI agents simulation: the agent *)
(* registry (AgentManager), the sensory system and its observation diff    *)
(* (SensorySystem), the movement system (MovementSystem), the brain        *)
(* service (BrainService) and the world simulator that ties them together  *)
(* (WorldSimulator).                                                       *)
(*                                                                         *)
(* The model follows the newest revision of each class found in the        *)
(* repository.  Time is discrete: one tick is 500 ms, the period of the    *)
(* observation interval.  The world is the line z = 1 and positions are    *)
(* integers counting half world units, so that the collection radius 0.5   *)
(* is 1, the observation radius 1.0 is 2 and the speed of 2 units per      *)
(* second is 2 grid points per tick.                                       *)
(***************************************************************************)
EXTENDS Integers, Sequences, FiniteSets, TLC

VARIABLES
    agentOrder,           \* AgentManager.agents: the keys, in insertion order
    agents,               \* AgentManager.agents: id -> agent body
    worldObjects,         \* SensorySystem.worldObjects: coin id -> coin, with
                          \* the agent its collection was credited to
    previousObservations, \* SensorySystem.previousObservations
    simulationRunning,    \* WorldSimulator.simulationRunning
    observationInterval,  \* WorldSimulator.observationInterval is not null
    intervals,            \* the setInterval timers that are alive
    cycleDue,             \* interval callbacks due at the current time
    conversationHistory,  \* WorldSimulator.conversationHistory: keys with entries
    anims,                \* the animate closures of MovementSystem, per agent
    timers,               \* pending setTimeout continuations, per agent
    requests,             \* decision requests awaiting the oracle, per agent
    initLoops,            \* startSimulation calls and their initial-decision loops
    pendingResets,        \* resetSimulation calls awaiting fetch and delay
    msgClock,             \* Date.now() of addReceivedText, as a sequence number
    handed,               \* how often each message was handed to the oracle
    lastTriggers,         \* the triggerAgentDecision calls of the last step
    lastOp                \* the operation of the last step and its outcome

vars == <<agentOrder, agents, worldObjects, previousObservations,
          simulationRunning, observationInterval, intervals, cycleDue,
          conversationHistory, anims, timers, requests, initLoops,
          pendingResets, msgClock, handed, lastTriggers,
          lastOp>>

----------------------------------------------------------------------------
(* Bounds of the model *)

\* decision requests outstanding per agent
MaxOutstanding == 2
\* pending setTimeout continuations per agent
MaxTimers == 1
\* animate closures alive per agent
MaxAnims == 2
\* messages delivered between two resets
MaxMessages == 2
\* setInterval timers alive at once
MaxIntervals == 2
\* startSimulation calls that have not returned
MaxStarts == 1
\* resetSimulation calls that have not returned
MaxResets == 1
\* coins an agent can have collected
MaxCoinCount == 2

----------------------------------------------------------------------------
(* Program constants, in ticks and grid points *)

\* observationRadius = 1.0 world units
ObservationRadius == 2
\* collectionRadius = 0.5 world units
CollectionRadius == 1
\* 2 units per second: grid points per tick
Speed == 2
\* setTimeout(..., 3000) of executeText
TextTicks == 6
\* setTimeout(resolve, 5000) of executeIdle
IdleTicks == 10
\* setTimeout(resolve, 100) between two initial decisions: within one tick
StaggerTicks == 1
\* stuckThreshold = 5000 of the documented anti-stuck check
StuckThreshold == 10

AgentIds == {"agent1", "agent2", "agent3"}
\* the ids generateCoins gives to the coins; a world holds the first of them
CoinIds == {"coin_0", "coin_1"}

\* the grid points a coin may be generated at, and those the oracle may name
CoinSpots == {-3, 0}
MoveTargets == {-3, 0}

\* config.name of each agent
Name(a) == CASE a = "agent1" -> "Alice"
             [] a = "agent2" -> "Bob"
             [] OTHER -> "Charlie"

\* config.position.x of each agent
ConfigPosition(a) == CASE a = "agent1" -> -4
                       [] a = "agent2" -> 4
                       [] OTHER -> 0

\* the names an oracle may address a text to: the agents' and one of nobody
RecipientNames == {"Alice", "Bob", "Charlie", "Nobody"}

NoTarget == [kind |-> "none", x |-> 0, agent |-> ""]
PointTarget(p) == [kind |-> "point", x |-> p, agent |-> ""]
AgentTarget(n) == [kind |-> "agent", x |-> 0, agent |-> n]
\* currentUtterance: null, or the text shown for a message to a recipient
NoUtterance == [to |-> "", text |-> ""]
Utterance(recipientName, message) == [to |-> recipientName, text |-> message]

SeqToSet(q) == {q[i] : i \in DOMAIN q}

\* for (const [agentId, agent] of agents): f applied for each agent of the
\* registry in insertion order, which holds three agents at most
ForEachAgent(s, f(_, _)) ==
    LET step(x, i) == IF i <= Len(x.agentOrder) THEN f(x, x.agentOrder[i])
                      ELSE x
    IN  step(step(step(s, 1), 2), 3)

\* createAgentBody
AgentBody(a) ==
    [position |-> ConfigPosition(a),
     currentAction |-> "idle",
     goalTarget |-> NoTarget,
     currentUtterance |-> NoUtterance,
     coinsCollected |-> 0,
     receivedTexts |-> <<>>,
     isMakingDecision |-> FALSE,
     decisionAge |-> -1]

----------------------------------------------------------------------------
(* The program state as one value, so that a handler is a function from    *)
(* state to state and a step is the composition of the calls it makes.     *)

Cur ==
    [agentOrder |-> agentOrder, agents |-> agents,
     worldObjects |-> worldObjects,
     previousObservations |-> previousObservations,
     simulationRunning |-> simulationRunning,
     observationInterval |-> observationInterval,
     intervals |-> intervals, cycleDue |-> cycleDue,
     conversationHistory |-> conversationHistory,
     anims |-> anims, timers |-> timers, requests |-> requests,
     initLoops |-> initLoops,
     pendingResets |-> pendingResets, msgClock |-> msgClock,
     handed |-> handed, lastTriggers |-> <<>>,
     lastOp |-> [name |-> "none", agent |-> "", result |-> ""]]

\* the state a step leaves stays within the bounds of the model
WithinBounds(s) ==
    /\ \A a \in AgentIds :
        /\ Len(s.requests[a]) <= MaxOutstanding
        /\ Len(s.timers[a]) <= MaxTimers
        /\ Len(s.anims[a]) <= MaxAnims
        /\ s.agents[a].coinsCollected <= MaxCoinCount
    /\ s.msgClock <= MaxMessages
    /\ s.intervals <= MaxIntervals
    /\ s.pendingResets <= MaxResets

Commit(s) ==
    /\ WithinBounds(s)
    /\ agentOrder' = s.agentOrder
    /\ agents' = s.agents
    /\ worldObjects' = s.worldObjects
    /\ previousObservations' = s.previousObservations
    /\ simulationRunning' = s.simulationRunning
    /\ observationInterval' = s.observationInterval
    /\ intervals' = s.intervals
    /\ cycleDue' = s.cycleDue
    /\ conversationHistory' = s.conversationHistory
    /\ anims' = s.anims
    /\ timers' = s.timers
    /\ requests' = s.requests
    /\ initLoops' = s.initLoops
    /\ pendingResets' = s.pendingResets
    /\ msgClock' = s.msgClock
    /\ handed' = s.handed
    /\ lastTriggers' = s.lastTriggers
    /\ lastOp' = s.lastOp

Done(s, name, a, result) ==
    [s EXCEPT !.lastOp = [name |-> name, agent |-> a, result |-> result]]

----------------------------------------------------------------------------
(* AgentManager *)

\* getAgent(agentId) is not undefined
HasAgent(s, a) == a \in SeqToSet(s.agentOrder)

\* a faulty getAgentIdByName, which falls back to the first agent
AgentIdsByNameOrFirst(s, n) ==
    IF SelectSeq(s.agentOrder, LAMBDA b : Name(b) = n) = <<>>
    THEN SubSeq(s.agentOrder, 1, 1)
    ELSE SelectSeq(s.agentOrder, LAMBDA b : Name(b) = n)

\* getAgentIdByName: the first agent of that name, or null
AgentIdsByName(s, n) == SelectSeq(s.agentOrder, LAMBDA b : Name(b) = n)

\* updateAgentState: Object.assign(agent, updates) of a known agent
UpdateAgentState(s, a, updates) ==
    IF HasAgent(s, a)
    THEN [s EXCEPT !.agents[a] =
            [f \in DOMAIN s.agents[a] |->
                IF f \in DOMAIN updates THEN updates[f] ELSE s.agents[a][f]]]
    ELSE s

\* addReceivedText
AddReceivedText(s, a, senderName, message) ==
    IF HasAgent(s, a)
    THEN [s EXCEPT !.msgClock = @ + 1,
                   !.agents[a].receivedTexts =
                       Append(@, [sender |-> senderName, message |-> message,
                                  timestamp |-> s.msgClock + 1, read |-> FALSE])]
    ELSE s

\* getAndClearReceivedTexts: what it returns
UnreadTexts(s, a) ==
    IF HasAgent(s, a)
    THEN SelectSeq(s.agents[a].receivedTexts, LAMBDA t : ~t.read)
    ELSE <<>>

\* a faulty getAndClearReceivedTexts, which marks nothing as read
MarkNoneRead(s, a) == s

\* getAndClearReceivedTexts: what it leaves
MarkAllRead(s, a) ==
    IF HasAgent(s, a)
    THEN [s EXCEPT !.agents[a].receivedTexts =
            [i \in DOMAIN @ |-> [@[i] EXCEPT !.read = TRUE]]]
    ELSE s

\* resetAgent
ResetAgent(s, a, initialPosition) ==
    IF HasAgent(s, a)
    THEN [s EXCEPT !.agents[a] =
            [@ EXCEPT !.position = initialPosition,
                      !.currentAction = "idle",
                      !.goalTarget = NoTarget,
                      !.currentUtterance = NoUtterance,
                      !.coinsCollected = 0,
                      !.receivedTexts = <<>>]]
    ELSE s

\* a faulty incrementCoinCount, which does not look the agent up
IncrementAnyCoinCount(s, a) ==
    [s EXCEPT !.agents[a].coinsCollected = @ + 1]

\* incrementCoinCount
IncrementCoinCount(s, a) ==
    IF HasAgent(s, a)
    THEN [s EXCEPT !.agents[a].coinsCollected = @ + 1]
    ELSE s

----------------------------------------------------------------------------
(* SensorySystem *)

\* Math.sqrt(dx^2 + dz^2) on the line z = 1
Distance(p, q) == IF p >= q THEN p - q ELSE q - p

\* getNearbyAgents: the ids of its entries, in registry order
GetNearbyAgents(s, a) ==
    IF HasAgent(s, a)
    THEN SelectSeq(s.agentOrder, LAMBDA b :
            /\ b # a
            /\ Distance(s.agents[b].position, s.agents[a].position)
                   <= ObservationRadius)
    ELSE <<>>

\* the keys of worldObjects in insertion order
CoinOrder == <<"coin_0", "coin_1">>

\* a faulty getVisibleObjects, which does not skip the collected coins
GetVisibleObjectsCollectedToo(s, a) ==
    IF HasAgent(s, a)
    THEN SelectSeq(CoinOrder, LAMBDA c :
            /\ c \in DOMAIN s.worldObjects
            /\ Distance(s.worldObjects[c].position, s.agents[a].position)
                   <= ObservationRadius)
    ELSE <<>>

\* getVisibleObjects: the ids of its entries, in insertion order
GetVisibleObjects(s, a) ==
    IF HasAgent(s, a)
    THEN SelectSeq(CoinOrder, LAMBDA c :
            /\ c \in DOMAIN s.worldObjects
            /\ ~s.worldObjects[c].collected
            /\ Distance(s.worldObjects[c].position, s.agents[a].position)
                   <= ObservationRadius)
    ELSE <<>>

\* the snapshot that checkForInterestingChanges and initializeObservations take
Observe(s, a) ==
    [nearbyAgents |-> GetNearbyAgents(s, a),
     worldObjects |-> GetVisibleObjects(s, a)]

\* a faulty filter, which looks at the first entry of previous only
FilterAgainstFirst(current, previous) ==
    SelectSeq(current, LAMBDA c : ~(previous # <<>> /\ previous[1] = c))

\* current.filter(c => !previous.some(p => p.id === c.id))
Filter(current, previous) ==
    SelectSeq(current, LAMBDA c : ~(\E i \in DOMAIN previous : previous[i] = c))

\* the four differences of checkForInterestingChanges
Diff(prev, cur) ==
    [newAgents |-> Filter(cur.nearbyAgents, prev.nearbyAgents),
     newObjects |-> Filter(cur.worldObjects, prev.worldObjects),
     agentsLeft |-> Filter(prev.nearbyAgents, cur.nearbyAgents),
     objectsLeft |-> Filter(prev.worldObjects, cur.worldObjects)]

\* areAllCoinsCollected is defined in a revision that is not in the sources:
\* no uncollected coin is left (getUncollectedCoins is empty)
AreAllCoinsCollected(s) ==
    \A c \in DOMAIN s.worldObjects : s.worldObjects[c].collected

\* a faulty checkCoinCollection, which does not look at the collected flag
CollectibleAgain(s, a) ==
    IF HasAgent(s, a)
    THEN SelectSeq(CoinOrder, LAMBDA c :
            /\ c \in DOMAIN s.worldObjects
            /\ Distance(s.worldObjects[c].position, s.agents[a].position)
                   <= CollectionRadius)
    ELSE <<>>

\* SensorySystem.checkCoinCollection: the coins it may pick, first in order
CollectibleBy(s, a) ==
    IF HasAgent(s, a)
    THEN SelectSeq(CoinOrder, LAMBDA c :
            /\ c \in DOMAIN s.worldObjects
            /\ ~s.worldObjects[c].collected
            /\ Distance(s.worldObjects[c].position, s.agents[a].position)
                   <= CollectionRadius
            /\ Distance(s.worldObjects[c].position, s.agents[a].position)
                   <= ObservationRadius)
    ELSE <<>>

----------------------------------------------------------------------------
(* WorldSimulator: the decision broker *)

Trigger(type, detail) == [type |-> type, detail |-> detail]

\* getSensoryData drains the inbox, and brainService.requestDecision hands the
\* drained messages to the oracle with the request
DispatchRequest(s, a, kind, loop) ==
    LET unread == UnreadTexts(s, a)
        s1 == MarkAllRead(s, a)
    IN  [s1 EXCEPT
            !.handed = [m \in DOMAIN @ |->
                IF \E i \in DOMAIN unread : unread[i].timestamp = m
                THEN @[m] + 1 ELSE @[m]],
            !.requests[a] = Append(@, [kind |-> kind, loop |-> loop])]

\* requestDecisionFromBrain up to its await: does it contact the oracle
Dispatches(s, a) == HasAgent(s, a) /\ ~s.agents[a].isMakingDecision

\* requestDecisionFromBrain up to its await
RequestDecisionFromBrain(s, a, loop) ==
    IF ~HasAgent(s, a) THEN s
    ELSE IF s.agents[a].isMakingDecision THEN s
    ELSE DispatchRequest([s EXCEPT !.agents[a].isMakingDecision = TRUE,
                                   !.agents[a].decisionAge = 0],
                         a, "broker", loop)

----------------------------------------------------------------------------
(* MovementSystem *)

\* stopMovement: cancels the frame that activeAnimations holds for the agent
StopMovement(s, a) ==
    [s EXCEPT !.anims[a] = SelectSeq(@, LAMBDA an : ~an.registered)]

\* stopAllAnimations
StopAllAnimations(s) ==
    [s EXCEPT !.anims = [a \in AgentIds |->
        SelectSeq(s.anims[a], LAMBDA an : ~an.registered)]]

\* activeAnimations.delete(agentId)
Unregister(q) == [i \in DOMAIN q |-> [q[i] EXCEPT !.registered = FALSE]]

RemoveAt(q, i) == SubSeq(q, 1, i - 1) \o SubSeq(q, i + 1, Len(q))

Min(x, y) == IF x <= y THEN x ELSE y

\* the interrupting branch of triggerAgentDecision for received_text
InterruptForText(s, a) ==
    IF s.agents[a].currentAction # "idle"
    THEN UpdateAgentState(
            IF s.agents[a].currentAction = "move" THEN StopMovement(s, a) ELSE s,
            a, [currentAction |-> "idle", goalTarget |-> NoTarget,
                currentUtterance |-> NoUtterance])
    ELSE s

\* the interrupting branch of triggerAgentDecision for object observations
InterruptForObject(s, a) ==
    UpdateAgentState(
        IF s.agents[a].currentAction = "move" THEN StopMovement(s, a) ELSE s,
        a, [currentAction |-> "idle", goalTarget |-> NoTarget])

\* triggerAgentDecision up to its await
TriggerAgentDecision(s0, a, reason) ==
    LET s == [s0 EXCEPT !.lastTriggers =
                Append(@, [agent |-> a, type |-> reason.type,
                           detail |-> reason.detail])]
    IN  IF ~s.simulationRunning THEN s
        ELSE IF ~HasAgent(s, a) THEN s
        ELSE IF s.agents[a].isMakingDecision THEN s
        ELSE LET s1 == IF reason.type = "received_text"
                       THEN InterruptForText(s, a) ELSE s
                 busy == /\ reason.type = "observation"
                         /\ s1.agents[a].currentAction # "idle"
             IN  IF busy /\ reason.detail \in {"new_objects", "objects_left"}
                 THEN RequestDecisionFromBrain(InterruptForObject(s1, a), a, 0)
                 ELSE IF busy THEN s1
                 ELSE RequestDecisionFromBrain(s1, a, 0)

\* WorldSimulator.triggerDecision, reached from the other systems
TriggerDecision(s, a, type, detail) ==
    IF type \in {"observation", "action_completion"}
    THEN TriggerAgentDecision(s, a, Trigger(type, detail))
    ELSE s

\* a faulty animate closure, whose progress is not capped at 1
AnimateUncapped(s, a, i) ==
    IF ~s.simulationRunning
    THEN [s EXCEPT !.anims[a] = Unregister(RemoveAt(@, i))]
    ELSE LET an == s.anims[a][i]
             distance == Distance(an.target, an.start)
             moved == Speed * an.elapsed
             pos == an.start + ((an.target - an.start) * moved) \div distance
             s1 == [s EXCEPT !.agents[a].position = pos]
         IN  IF moved < distance
             THEN [s1 EXCEPT !.anims[a] = [j \in DOMAIN @ |->
                        [@[j] EXCEPT !.registered = (j = i)]]]
             ELSE TriggerDecision(
                     UpdateAgentState(
                        [s1 EXCEPT !.anims[a] = Unregister(RemoveAt(@, i))],
                        a, [currentAction |-> "idle", goalTarget |-> NoTarget]),
                     a, "action_completion", "move")

\* one call of the animate closure i of agent a
Animate(s, a, i) ==
    IF ~s.simulationRunning
    THEN [s EXCEPT !.anims[a] = Unregister(RemoveAt(@, i))]
    ELSE LET an == s.anims[a][i]
             distance == Distance(an.target, an.start)
             moved == Min(Speed * an.elapsed, distance)
             pos == an.start + ((an.target - an.start) * moved) \div distance
             s1 == [s EXCEPT !.agents[a].position = pos]
         IN  IF moved < distance
             THEN [s1 EXCEPT !.anims[a] = [j \in DOMAIN @ |->
                        [@[j] EXCEPT !.registered = (j = i)]]]
             ELSE TriggerDecision(
                     UpdateAgentState(
                        [s1 EXCEPT !.anims[a] = Unregister(RemoveAt(@, i))],
                        a, [currentAction |-> "idle", goalTarget |-> NoTarget]),
                     a, "action_completion", "move")

\* executeMovement
ExecuteMovement(s, a, target) ==
    IF ~HasAgent(s, a) THEN s
    ELSE LET start == s.agents[a].position
         IN  IF Distance(target.x, start) = 0
             THEN TriggerDecision(
                     UpdateAgentState(s, a, [currentAction |-> "idle",
                                             goalTarget |-> NoTarget]),
                     a, "action_completion", "move")
             ELSE Animate(
                     [s EXCEPT !.anims[a] = Append(@,
                        [start |-> start, target |-> target.x,
                         elapsed |-> 0, registered |-> FALSE])],
                     a, Len(s.anims[a]) + 1)

----------------------------------------------------------------------------
(* WorldSimulator: executing a decision *)

AddTimer(s, a, kind, ticks, loop) ==
    [s EXCEPT !.timers[a] = Append(@, [kind |-> kind, left |-> ticks,
                                       loop |-> loop])]

\* a faulty executeText, which shows the message and delivers nothing
ExecuteTextUndelivered(s, a, recipientName, message) ==
    IF ~HasAgent(s, a) THEN s
    ELSE LET s1 == [s EXCEPT !.conversationHistory = @ \cup {a}]
             s2 == UpdateAgentState(s1, a,
                      [currentUtterance |-> Utterance(recipientName, message)])
         IN  IF AgentIdsByName(s2, recipientName) = <<>> THEN s2
             ELSE AddTimer(s2, a, "text", TextTicks, 0)

\* executeText up to the return; its setTimeout callback is TextTimeout
ExecuteText(s, a, recipientName, message) ==
    IF ~HasAgent(s, a) THEN s
    ELSE LET s1 == [s EXCEPT !.conversationHistory = @ \cup {a}]
             s2 == UpdateAgentState(s1, a,
                      [currentUtterance |-> Utterance(recipientName, message)])
             ids == AgentIdsByName(s2, recipientName)
         IN  IF ids = <<>> THEN s2
             ELSE AddTimer(
                     TriggerAgentDecision(
                        AddReceivedText(s2, ids[1], Name(a), message),
                        ids[1], Trigger("received_text", "")),
                     a, "text", TextTicks, 0)

\* the setTimeout callback of executeText
TextTimeout(s, a) ==
    TriggerAgentDecision(
        UpdateAgentState(s, a, [currentAction |-> "idle",
                                currentUtterance |-> NoUtterance]),
        a, Trigger("action_completion", "text"))

\* executeIdle up to its await; the continuation is IdleTimeout
ExecuteIdle(s, a, loop) ==
    IF ~HasAgent(s, a) THEN s
    ELSE AddTimer(
            UpdateAgentState(s, a, [currentAction |-> "idle",
                                    goalTarget |-> NoTarget]),
            a, "idle", IdleTicks, loop)

\* executeIdle after its await
IdleTimeout(s, a) == TriggerDecision(s, a, "action_completion", "idle")

\* executeDecision
ExecuteDecision(s, a, d, loop) ==
    IF ~HasAgent(s, a) THEN s
    ELSE LET s1 == UpdateAgentState(
                      [s EXCEPT !.agents[a].isMakingDecision = FALSE],
                      a, [currentAction |-> d.action, goalTarget |-> d.target])
         IN  IF d.action = "move" /\ d.target # NoTarget
             THEN ExecuteMovement(s1, a, d.target)
             ELSE IF /\ d.action = "text"
                     /\ d.utterance # ""
                     /\ d.target # NoTarget
             THEN ExecuteText(s1, a, d.target.agent, d.utterance)
             ELSE IF d.action = "idle" THEN ExecuteIdle(s1, a, loop)
             ELSE s1

\* does the caller awaiting executeDecision wait for the rest of executeIdle
AwaitsIdle(s, a, d) == HasAgent(s, a) /\ d.action = "idle"

----------------------------------------------------------------------------
(* WorldSimulator: the observation cycle *)

\* a faulty checkForInterestingChanges, which keeps the snapshot it had
CheckForChangesKeepingSnapshot(s, a) ==
    IF ~HasAgent(s, a) THEN s
    ELSE LET d == Diff(s.previousObservations[a], Observe(s, a))
             s1 == IF d.newAgents # <<>>
                   THEN TriggerDecision(s, a, "observation", "new_agents")
                   ELSE s
             s2 == IF d.newObjects # <<>>
                   THEN TriggerDecision(s1, a, "observation", "new_objects")
                   ELSE s1
             s3 == IF d.agentsLeft # <<>>
                   THEN TriggerDecision(s2, a, "observation", "agents_left")
                   ELSE s2
         IN  IF d.objectsLeft # <<>>
             THEN TriggerDecision(s3, a, "observation", "objects_left")
             ELSE s3

\* checkForInterestingChanges
CheckForInterestingChanges(s, a) ==
    IF ~HasAgent(s, a) THEN s
    ELSE LET cur == Observe(s, a)
             d == Diff(s.previousObservations[a], cur)
             s1 == IF d.newAgents # <<>>
                   THEN TriggerDecision(s, a, "observation", "new_agents")
                   ELSE s
             s2 == IF d.newObjects # <<>>
                   THEN TriggerDecision(s1, a, "observation", "new_objects")
                   ELSE s1
             s3 == IF d.agentsLeft # <<>>
                   THEN TriggerDecision(s2, a, "observation", "agents_left")
                   ELSE s2
             s4 == IF d.objectsLeft # <<>>
                   THEN TriggerDecision(s3, a, "observation", "objects_left")
                   ELSE s3
         IN  [s4 EXCEPT !.previousObservations[a] = cur]

\* checkForInterestingChangesAll
CheckForInterestingChangesAll(s) ==
    ForEachAgent(s, CheckForInterestingChanges)

\* onAllCoinsCollected
OnAllCoinsCollected(s) ==
    LET notify(x, a) ==
            TriggerAgentDecision(x, a, Trigger("all_coins_collected", ""))
    IN  ForEachAgent(s, notify)

\* the body of the loop of WorldSimulator.checkCoinCollection for one agent
CollectFor(s, a) ==
    LET coins == CollectibleBy(s, a)
    IN  IF coins = <<>> THEN s
        ELSE LET s1 == [s EXCEPT !.worldObjects[coins[1]].collected = TRUE,
                                 !.worldObjects[coins[1]].collector = a]
                 s2 == UpdateAgentState(IncrementCoinCount(s1, a), a,
                                        [currentAction |-> "idle"])
                 s3 == IF AreAllCoinsCollected(s2)
                       THEN OnAllCoinsCollected(s2) ELSE s2
             IN  TriggerAgentDecision(s3, a,
                    Trigger("action_completion", "collect_coin"))

\* a faulty checkCoinCollection, which goes through the registry backwards
CheckCoinCollectionBackwards(s) ==
    LET step(x, i) == IF i <= Len(x.agentOrder)
                      THEN CollectFor(x, x.agentOrder[i]) ELSE x
    IN  step(step(step(s, 3), 2), 1)

\* WorldSimulator.checkCoinCollection
CheckCoinCollection(s) == ForEachAgent(s, CollectFor)

\* the callback of the setInterval of startBrainDecisionLoop
IntervalCallback(s) ==
    IF s.simulationRunning
    THEN CheckCoinCollection(CheckForInterestingChangesAll(s))
    ELSE s

----------------------------------------------------------------------------
(* WorldSimulator: start, stop, reset, force *)

FreeLoop == [phase |-> "free", idx |-> 0, left |-> 0]

\* triggerInitialDecisions after the request of agent idx has returned
LoopAdvance(s, k) ==
    IF k = 0 THEN s
    ELSE IF s.initLoops[k].idx < Len(s.agentOrder)
    THEN [s EXCEPT !.initLoops[k].phase = "delay",
                   !.initLoops[k].left = StaggerTicks]
    ELSE [s EXCEPT !.initLoops[k] = FreeLoop]

\* triggerInitialDecisions: the iteration for the agent after idx
LoopNext(s, k) ==
    LET i == s.initLoops[k].idx + 1
        s1 == [s EXCEPT !.initLoops[k].idx = i, !.initLoops[k].left = 0]
    IN  IF i > Len(s.agentOrder) THEN [s EXCEPT !.initLoops[k] = FreeLoop]
        ELSE IF Dispatches(s1, s1.agentOrder[i])
        THEN RequestDecisionFromBrain(
                [s1 EXCEPT !.initLoops[k].phase = "request"],
                s1.agentOrder[i], k)
        ELSE LoopAdvance(s1, k)

\* triggerInitialDecisions: every agent is first forced to idle
CoerceIdle(s) ==
    LET coerce(x, a) ==
            IF x.agents[a].currentAction # "idle"
            THEN UpdateAgentState(x, a,
                    [currentAction |-> "idle", goalTarget |-> NoTarget,
                     currentUtterance |-> NoUtterance])
            ELSE x
    IN  ForEachAgent(s, coerce)

\* startBrainDecisionLoop
StartBrainDecisionLoop(s) ==
    [s EXCEPT !.intervals = @ + 1, !.observationInterval = TRUE]

\* startSimulation after its fetch, up to the first await of the loop
StartAfterFetch(s, k) ==
    LoopNext(CoerceIdle(StartBrainDecisionLoop(
                [s EXCEPT !.simulationRunning = TRUE])), k)

\* a faulty stopSimulation, which clears the interval without looking at it
StopSimulationUnchecked(s) ==
    StopAllAnimations([s EXCEPT !.simulationRunning = FALSE,
                                !.intervals = @ - 1,
                                !.observationInterval = FALSE])

\* stopSimulation
StopSimulation(s) ==
    StopAllAnimations(
        IF s.observationInterval
        THEN [s EXCEPT !.simulationRunning = FALSE,
                       !.intervals = @ - 1,
                       !.observationInterval = FALSE]
        ELSE [s EXCEPT !.simulationRunning = FALSE])

\* the initial position resetSimulation has for an agent, if any
HardCodedPosition(a) == CASE a = "agent1" -> <<-4>>
                          [] a = "agent2" -> <<4>>
                          [] OTHER -> <<>>

\* resetSimulation: the forEach over the agents
ResetAgents(s) ==
    LET reset(x, a) ==
            IF HardCodedPosition(a) # <<>>
            THEN ResetAgent(x, a, HardCodedPosition(a)[1]) ELSE x
    IN  ForEachAgent(s, reset)

\* generateCoins: every coin anew at the positions drawn
GenerateCoins(s, spots) ==
    [s EXCEPT !.worldObjects =
        [c \in DOMAIN @ |-> [position |-> spots[c], collected |-> FALSE,
                             collector |-> ""]]]

\* resetSimulation after its fetch and its delay
ResetAfterDelay(s, spots) ==
    [GenerateCoins(ResetAgents(s), spots) EXCEPT !.conversationHistory = {}]

\* forceAgentDecision may contact the oracle
ForceDispatches(s, a) == HasAgent(s, a) /\ s.agents[a].currentAction = "idle"

\* forceAgentDecision up to its await
ForceAgentDecision(s, a) ==
    IF ~HasAgent(s, a) THEN s
    ELSE IF s.agents[a].currentAction # "idle" THEN s
    ELSE DispatchRequest(s, a, "forced", 0)

----------------------------------------------------------------------------
(* The decisions an oracle may return *)

Decision(action, target, utterance) ==
    [action |-> action, target |-> target, utterance |-> utterance]

Decisions ==
    {Decision("move", PointTarget(p), "") : p \in MoveTargets}
    \cup {Decision("text", AgentTarget(n), "hi") : n \in RecipientNames}
    \cup {Decision("idle", NoTarget, ""),
          Decision("move", NoTarget, ""),
          Decision("text", NoTarget, "hi"),
          Decision("text", AgentTarget("Bob"), ""),
          Decision("say", NoTarget, "hi")}

----------------------------------------------------------------------------
(* Initial state: the world after loadAgents *)

InitWorld(order, coins) ==
    /\ agentOrder = order
    /\ agents = [a \in AgentIds |-> AgentBody(a)]
    /\ worldObjects \in [coins -> [position : CoinSpots, collected : {FALSE},
                                   collector : {""}]]
    /\ previousObservations =
         [a \in AgentIds |->
            Observe([agentOrder |-> order,
                     agents |-> [b \in AgentIds |-> AgentBody(b)],
                     worldObjects |-> worldObjects], a)]
    /\ simulationRunning = FALSE
    /\ observationInterval = FALSE
    /\ intervals = 0
    /\ cycleDue = 0
    /\ conversationHistory = {}
    /\ anims = [a \in AgentIds |-> <<>>]
    /\ timers = [a \in AgentIds |-> <<>>]
    /\ requests = [a \in AgentIds |-> <<>>]
    /\ initLoops = [k \in 1..MaxStarts |-> FreeLoop]
    /\ pendingResets = 0
    /\ msgClock = 0
    /\ handed = [m \in 1..MaxMessages |-> 0]
    /\ lastTriggers = <<>>
    /\ lastOp = [name |-> "load", agent |-> "", result |-> ""]

\* a world of one coin
InitWith(order) == InitWorld(order, {"coin_0"})

Init == InitWith(<<"agent1", "agent2">>)

----------------------------------------------------------------------------
(* Steps *)

\* startSimulation up to its fetch
StartSimulation ==
    \E k \in 1..MaxStarts :
        /\ initLoops[k].phase = "free"
        /\ Commit(Done([Cur EXCEPT !.initLoops[k].phase = "fetch"],
                       "start", "", "pending"))

\* startSimulation after its fetch has answered
StartProceeds ==
    \E k \in 1..MaxStarts :
        /\ initLoops[k].phase = "fetch"
        /\ Commit(Done(StartAfterFetch(Cur, k), "start", "", "started"))

\* startSimulation when its fetch throws: the catch logs, nothing starts
StartFails ==
    \E k \in 1..MaxStarts :
        /\ initLoops[k].phase = "fetch"
        /\ Commit(Done([Cur EXCEPT !.initLoops[k] = FreeLoop],
                       "start", "", "error"))

\* the stagger delay of triggerInitialDecisions elapses
StaggerElapses ==
    \E k \in 1..MaxStarts :
        /\ initLoops[k].phase = "delay"
        /\ Commit(Done(LoopNext(Cur, k), "stagger", "", ""))

\* stopSimulation
Stop == Commit(Done(StopSimulation(Cur), "stop", "",
                    IF simulationRunning THEN "running" ELSE "stopped"))

\* resetSimulation up to its fetch
Reset ==
    Commit(Done([StopSimulation(Cur) EXCEPT !.pendingResets = @ + 1],
                "reset", "", "pending"))

\* resetSimulation after its fetch and its 200 ms delay
ResetProceeds ==
    /\ pendingResets > 0
    /\ \E spots \in [DOMAIN worldObjects -> CoinSpots] :
        Commit(Done([ResetAfterDelay(Cur, spots) EXCEPT !.pendingResets = @ - 1],
                    "reset", "", "done"))

\* forceAgentDecision up to its await, for an agent id among ids
ForceOf(ids) ==
    \E a \in ids :
        Commit(Done(ForceAgentDecision(Cur, a), "force", a,
                    IF ForceDispatches(Cur, a) THEN "pending" ELSE "null"))

\* the oracle answers request i of agent a with a decision d of a menu
OracleDecidesFrom(menu) ==
    \E a \in AgentIds : \E i \in DOMAIN requests[a] : \E d \in menu :
        LET r == requests[a][i]
            s1 == [Cur EXCEPT !.requests[a] = RemoveAt(@, i)]
            s2 == ExecuteDecision(s1, a, d, r.loop)
            s3 == IF AwaitsIdle(s1, a, d)
                  THEN IF r.loop = 0 THEN s2
                       ELSE [s2 EXCEPT !.initLoops[r.loop].phase = "rest"]
                  ELSE LoopAdvance(s2, r.loop)
        IN  Commit(Done(s3, r.kind, a, "decision"))

\* the request fails: BrainService.requestDecision returns null (fetch threw,
\* response not ok) or undefined (no decision in the body)
OracleFails ==
    \E a \in AgentIds : \E i \in DOMAIN requests[a] :
        LET r == requests[a][i]
            s1 == [Cur EXCEPT !.requests[a] = RemoveAt(@, i)]
        IN  Commit(Done(LoopAdvance(s1, r.loop), r.kind, a, "null"))

\* a setTimeout continuation of agent a runs
TimerFires ==
    \E a \in AgentIds : \E i \in DOMAIN timers[a] :
        LET tm == timers[a][i]
            s1 == [Cur EXCEPT !.timers[a] = RemoveAt(@, i)]
        IN  /\ tm.left = 0
            /\ IF tm.kind = "text"
               THEN Commit(Done(TextTimeout(s1, a), "textTimeout", a, ""))
               ELSE Commit(Done(LoopAdvance(IdleTimeout(s1, a), tm.loop),
                                "idleTimeout", a, ""))

\* a frame of an animation changes something
FramePending(a, i) ==
    LET s == Animate(Cur, a, i)
    IN  s.agents # agents \/ s.anims # anims \/ s.lastTriggers # <<>>

\* requestAnimationFrame runs the animate closure i of agent a
Frame ==
    \E a \in AgentIds : \E i \in DOMAIN anims[a] :
        /\ FramePending(a, i)
        /\ Commit(Done(Animate(Cur, a, i), "frame", a,
                       IF ~simulationRunning THEN "cancelled"
                       ELSE IF Len(Animate(Cur, a, i).anims[a]) < Len(anims[a])
                       THEN "completed" ELSE "moved"))

\* one callback of a setInterval timer
ObservationCycle ==
    /\ cycleDue > 0
    /\ Commit(Done([IntervalCallback(Cur) EXCEPT !.cycleDue = @ - 1],
                   "cycle", "", ""))

\* Date.now() - agent.lastDecisionTime one tick later: undefined (-1) before
\* the first request, and not told apart beyond the stuck threshold
Elapsed(age) == IF age < 0 \/ age > StuckThreshold THEN age ELSE age + 1

\* 500 ms pass, once everything due by now has run; agent.lastDecisionTime is
\* written and never read by the program, and its age is kept only for those
\* who watch it
TickOf(watched) ==
    /\ cycleDue = 0
    /\ \A a \in AgentIds :
        /\ \A i \in DOMAIN timers[a] : timers[a][i].left > 0
        /\ \A i \in DOMAIN anims[a] : ~FramePending(a, i)
    /\ \A k \in 1..MaxStarts :
        initLoops[k].phase = "delay" => initLoops[k].left > 0
    /\ Commit(Done(
        [Cur EXCEPT
            !.agents = [a \in AgentIds |->
                          [agents[a] EXCEPT !.decisionAge =
                              IF watched THEN Elapsed(@) ELSE @]],
            !.timers = [a \in AgentIds |-> [i \in DOMAIN timers[a] |->
                          [timers[a][i] EXCEPT !.left = @ - 1]]],
            !.anims = [a \in AgentIds |-> [i \in DOMAIN anims[a] |->
                          [anims[a][i] EXCEPT !.elapsed = @ + 1]]],
            !.initLoops = [k \in 1..MaxStarts |->
                          IF initLoops[k].phase = "delay"
                          THEN [initLoops[k] EXCEPT !.left = @ - 1]
                          ELSE initLoops[k]],
            !.cycleDue = intervals],
        "tick", "", ""))

Tick == TickOf(FALSE)

TickWatched == TickOf(TRUE)

\* startSimulation while nothing runs
StartStopped == ~simulationRunning /\ StartSimulation

Force == ForceOf(AgentIds)

OracleDecides == OracleDecidesFrom(Decisions)

Next ==
    \/ StartSimulation
    \/ StartProceeds
    \/ StartFails
    \/ StaggerElapses
    \/ Stop
    \/ Reset
    \/ ResetProceeds
    \/ Force
    \/ OracleDecides
    \/ OracleFails
    \/ TimerFires
    \/ Frame
    \/ ObservationCycle
    \/ Tick

Spec == Init /\ [][Next]_vars

----------------------------------------------------------------------------
(* Scenarios: the same steps for a smaller world, a shorter menu of the    *)
(* oracle and fewer operations of the client, so that all of their states  *)
(* can be visited                                                          *)

InitSolo == InitWith(<<"agent1">>)

\* startSimulation as the first operation of the client
StartFirst == lastOp.name = "load" /\ StartSimulation

\* no agent has two animate closures alive
OneAnimation == \A a \in AgentIds : Len(anims[a]) <= 1

ForceSolo == ForceOf({"agent1"})

\* one agent, its broker and an oracle that lets it rest, lets it talk to
\* itself, or fails
BrokerMenu == {Decision("idle", NoTarget, ""),
               Decision("text", AgentTarget("Alice"), "hi")}

OracleBroker == OracleDecidesFrom(BrokerMenu)

NextBroker ==
    \/ StartStopped
    \/ StartProceeds
    \/ ForceSolo
    \/ OracleBroker
    \/ OracleFails
    \/ TimerFires
    \/ ObservationCycle
    \/ TickWatched

SpecBroker == InitSolo /\ [][NextBroker]_vars

\* the same agent when the client forces nothing
NextUnforced ==
    \/ StartStopped
    \/ StartProceeds
    \/ OracleBroker
    \/ OracleFails
    \/ TimerFires
    \/ ObservationCycle
    \/ Tick

\* the timers and the passing of time are not starved; time passes only
\* once the interval callbacks that are due have run
FairUnforced ==
    /\ InitSolo
    /\ [][NextUnforced]_vars
    /\ WF_vars(TimerFires)
    /\ WF_vars(Tick)

\* one agent that the oracle sends to points: where it is, next to it, far
MoveMenu == {Decision("move", PointTarget(p), "") : p \in {-4, -3, 0}}

OracleMove == OracleDecidesFrom(MoveMenu)

NextMove ==
    \/ StartStopped
    \/ StartProceeds
    \/ ForceSolo
    \/ OracleMove
    \/ OracleFails
    \/ Frame
    \/ ObservationCycle
    \/ Tick

SpecMove == InitSolo /\ [][NextMove]_vars

\* the same agent when the client forces nothing and no request fails
NextWalk ==
    \/ StartStopped
    \/ StartProceeds
    \/ OracleMove
    \/ Frame
    \/ ObservationCycle
    \/ Tick

SpecWalk == InitSolo /\ [][NextWalk]_vars

\* two agents that the oracle lets rest or sends next to where Alice stands,
\* never before an earlier movement of the agent has ended
MeetMenu == {Decision("idle", NoTarget, ""),
             Decision("move", PointTarget(-3), "")}

OracleMeet == OracleDecidesFrom(MeetMenu) /\ OneAnimation'

NextMeet ==
    \/ StartFirst
    \/ StartProceeds
    \/ StaggerElapses
    \/ OracleMeet
    \/ TimerFires
    \/ Frame
    \/ ObservationCycle
    \/ Tick

SpecMeet == Init /\ [][NextMeet]_vars

\* two agents that the oracle lets talk to each other and to themselves
TalkMenu == {Decision("text", AgentTarget(n), "hi") : n \in {"Alice", "Bob"}}

OracleTalk == OracleDecidesFrom(TalkMenu)

ForceBob == ForceOf({"agent2"})

NextTalk ==
    \/ StartStopped
    \/ StartProceeds
    \/ StaggerElapses
    \/ ForceBob
    \/ OracleTalk
    \/ OracleFails
    \/ TimerFires
    \/ ObservationCycle
    \/ Tick

SpecTalk == Init /\ [][NextTalk]_vars

\* the client starts, stops and resets a world that has the agent the README
\* adds to the configuration, while the oracle sends the agents to a point,
\* never before an earlier movement of the agent has ended; a start goes
\* past its fetch only while no interval timer is alive
InitLife == InitWith(<<"agent1", "agent3">>)

LifeMenu == {Decision("move", PointTarget(-3), "")}

OracleLife == OracleDecidesFrom(LifeMenu) /\ OneAnimation'

OneInterval == intervals <= 1

StartProceedsOnce == StartProceeds /\ OneInterval'

NextLife ==
    \/ StartSimulation
    \/ StartProceedsOnce
    \/ StartFails
    \/ StaggerElapses
    \/ Stop
    \/ Reset
    \/ ResetProceeds
    \/ OracleLife
    \/ Frame
    \/ ObservationCycle
    \/ Tick

SpecLife == InitLife /\ [][NextLife]_vars

\* the spots three agents stand at when an observation cycle is due: 0 is
\* within the observation radius of -1 and of 2, which are out of each
\* other's
DiffSpots == {-1, 0, 2}

Placed(spots) ==
    [a \in AgentIds |-> [AgentBody(a) EXCEPT !.position = spots[a]]]

\* a running simulation whose agents have moved from one placement to another
\* since the snapshots of the last observation cycle were taken
InitDiff ==
    /\ agentOrder = <<"agent1", "agent2", "agent3">>
    /\ agents \in {Placed(spots) : spots \in [AgentIds -> DiffSpots]}
    /\ worldObjects \in
         [{"coin_0"} -> [position : CoinSpots, collected : {FALSE},
                         collector : {""}]]
    /\ previousObservations \in
         {[a \in AgentIds |->
            Observe([agentOrder |-> agentOrder, agents |-> Placed(spots),
                     worldObjects |-> worldObjects], a)] :
          spots \in [AgentIds -> DiffSpots]}
    /\ simulationRunning = TRUE
    /\ observationInterval = TRUE
    /\ intervals = 1
    /\ cycleDue = 1
    /\ conversationHistory = {}
    /\ anims = [a \in AgentIds |-> <<>>]
    /\ timers = [a \in AgentIds |-> <<>>]
    /\ requests = [a \in AgentIds |-> <<>>]
    /\ initLoops = [k \in 1..MaxStarts |-> FreeLoop]
    /\ pendingResets = 0
    /\ msgClock = 0
    /\ handed = [m \in 1..MaxMessages |-> 0]
    /\ lastTriggers = <<>>
    /\ lastOp = [name |-> "tick", agent |-> "", result |-> ""]

NextDiff ==
    \/ ObservationCycle
    \/ OracleFails
    \/ Tick

SpecDiff == InitDiff /\ [][NextDiff]_vars

\* two agents that the oracle sends to the middle of a world of two coins,
\* never before an earlier movement of the agent has ended, and which the
\* client may reset
InitCoins == InitWorld(<<"agent1", "agent2">>, CoinIds)

CoinMenu == {Decision("move", PointTarget(0), "")}

OracleCoins == OracleDecidesFrom(CoinMenu) /\ OneAnimation'

NextCoins ==
    \/ StartStopped
    \/ StartProceeds
    \/ StaggerElapses
    \/ Reset
    \/ ResetProceeds
    \/ OracleCoins
    \/ Frame
    \/ ObservationCycle
    \/ Tick

SpecCoins == InitCoins /\ [][NextCoins]_vars

\* two agents and an oracle whose decisions all lack what their action needs:
\* a move without a target, a text without a target, a text without utterance
MalformedMenu == {Decision("move", NoTarget, ""),
                  Decision("text", NoTarget, "hi"),
                  Decision("text", AgentTarget("Bob"), "")}

OracleMalformed == OracleDecidesFrom(MalformedMenu)

NextMalformed ==
    \/ StartStopped
    \/ StartProceeds
    \/ StaggerElapses
    \/ OracleMalformed
    \/ OracleFails
    \/ ObservationCycle
    \/ Tick

SpecMalformed == Init /\ [][NextMalformed]_vars

\* stopSimulation at a moment when no decision request is at the oracle
StopQuiet == (\A a \in AgentIds : requests[a] = <<>>) /\ Stop

\* two agents that the oracle lets talk to Bob or walk to the middle, in a
\* simulation that the client starts and then stops when no request is in
\* flight
HaltMenu == {Decision("text", AgentTarget("Bob"), "hi"),
             Decision("move", PointTarget(0), "")}

OracleHalt == OracleDecidesFrom(HaltMenu) /\ OneAnimation'

NextHalt ==
    \/ StartFirst
    \/ StartProceeds
    \/ StaggerElapses
    \/ StopQuiet
    \/ OracleHalt
    \/ TimerFires
    \/ Frame
    \/ ObservationCycle
    \/ Tick

SpecHalt == Init /\ [][NextHalt]_vars

----------------------------------------------------------------------------
(* Properties *)

Roster == SeqToSet(agentOrder)

Op(name, a, result) == [name |-> name, agent |-> a, result |-> result]

\* the triggers of the last step that were raised on agent a
TriggersOn(a) == SelectSeq(lastTriggers, LAMBDA g : g.agent = a)

\* C1: at most one decision request to the oracle is outstanding for an
\* agent at any time, whoever asked for it
C1_OneRequestOutstanding ==
    \A a \in AgentIds : Len(requests[a]) <= 1

\* C2: once a request of the broker has failed and no other request of the
\* agent is outstanding, the agent's isMakingDecision flag is false
C2_FailureClearsFlag ==
    \A a \in AgentIds :
        (lastOp = Op("broker", a, "null") /\ requests[a] = <<>>)
            => ~agents[a].isMakingDecision

\* C3: after an observation cycle of the running simulation, an agent that is
\* idle, whose last decision request is older than the stuck threshold and on
\* which the cycle raised no trigger has a decision request at the oracle
C3_WatchdogForcesRequest ==
    \A a \in Roster :
        ( /\ lastOp.name = "cycle"
          /\ simulationRunning
          /\ agents[a].currentAction = "idle"
          /\ agents[a].decisionAge > StuckThreshold
          /\ TriggersOn(a) = <<>> )
            => requests[a] # <<>>

\* time keeps passing, and with it the observation cycles keep running
TimePasses ==
    /\ []<>(lastOp.name = "tick")
    /\ []<>(lastOp.name = "cycle")

\* C4: when time keeps passing while the simulation runs, then whenever a
\* decision request of an agent has failed, a decision request of that agent
\* is outstanding again later
C4_RequestAfterFailure ==
    TimePasses => \A a \in AgentIds :
        [](( /\ simulationRunning
             /\ lastOp.agent = a
             /\ lastOp.result = "null"
             /\ lastOp.name \in {"broker", "forced"} )
              => <>(requests[a] # <<>> \/ ~simulationRunning))

\* C5: goalTarget is non-null only while currentAction is move
C5_GoalOnlyWhileMoving ==
    \A a \in AgentIds :
        agents[a].goalTarget # NoTarget => agents[a].currentAction = "move"

\* what stop() is about: the running flag, the observation timer, the active
\* movement set and the agent states
StopView(s) ==
    [simulationRunning |-> s.simulationRunning,
     observationInterval |-> s.observationInterval,
     intervals |-> s.intervals,
     activeAnimations |-> [a \in AgentIds |->
         SelectSeq(s.anims[a], LAMBDA an : an.registered)],
     agents |-> s.agents]

\* nothing is running: no flag, no observation timer, no active movement
NothingRunning ==
    /\ ~simulationRunning
    /\ ~observationInterval
    /\ \A a \in AgentIds : \A i \in DOMAIN anims[a] : ~anims[a][i].registered

\* C6: from every state, stopSimulation called twice in a row leaves what
\* stopSimulation called once leaves, and where nothing is running it changes
\* nothing
C6_StopIdempotent ==
    /\ StopView(StopSimulation(StopSimulation(Cur))) = StopView(StopSimulation(Cur))
    /\ NothingRunning => StopView(StopSimulation(Cur)) = StopView(Cur)

\* stop has just been called on a simulation that another stop had stopped
\* in the middle of a move
C6_Witness ==
    /\ lastOp = Op("stop", "", "stopped")
    /\ \E a \in Roster : /\ agents[a].currentAction = "move"
                         /\ agents[a].position # ConfigPosition(a)

\* C7: when resetSimulation has completed, every agent of the registry is at
\* its configured initial position and has collected no coin
C7_ResetRestoresAgents ==
    lastOp = Op("reset", "", "done") =>
        \A a \in Roster : /\ agents[a].position = ConfigPosition(a)
                          /\ agents[a].coinsCollected = 0

\* the ids of a list of observed agents or objects
Ids(list) == SeqToSet(list)

\* a list holds no id twice
NoDuplicate(q) == \A i, j \in DOMAIN q : q[i] = q[j] => i = j

\* C8: for every agent, the diff of its previous snapshot P and the snapshot
\* C it would take now lists exactly the ids of C that are not in P as new and
\* exactly the ids of P that are not in C as left, each once, for agents and
\* for objects; all four lists are empty when the id sets are equal
C8_DiffIsSetDifference ==
    \A a \in Roster :
        LET P == previousObservations[a]
            C == Observe(Cur, a)
            d == Diff(P, C)
        IN  /\ Ids(d.newAgents) = Ids(C.nearbyAgents) \ Ids(P.nearbyAgents)
            /\ Ids(d.agentsLeft) = Ids(P.nearbyAgents) \ Ids(C.nearbyAgents)
            /\ Ids(d.newObjects) = Ids(C.worldObjects) \ Ids(P.worldObjects)
            /\ Ids(d.objectsLeft) = Ids(P.worldObjects) \ Ids(C.worldObjects)
            /\ NoDuplicate(d.newAgents) /\ NoDuplicate(d.agentsLeft)
            /\ NoDuplicate(d.newObjects) /\ NoDuplicate(d.objectsLeft)
            /\ ( /\ Ids(P.nearbyAgents) = Ids(C.nearbyAgents)
                 /\ Ids(P.worldObjects) = Ids(C.worldObjects) )
                => d = [newAgents |-> <<>>, newObjects |-> <<>>,
                        agentsLeft |-> <<>>, objectsLeft |-> <<>>]

\* an observation cycle has run for an agent that had one agent newly near
\* it and another one no longer near it, and that still sees an agent
C8_Witness ==
    /\ lastOp.name = "cycle"
    /\ \E a \in Roster :
        /\ \E i \in DOMAIN lastTriggers :
              lastTriggers[i] = [agent |-> a, type |-> "observation",
                                 detail |-> "new_agents"]
        /\ \E i \in DOMAIN lastTriggers :
              lastTriggers[i] = [agent |-> a, type |-> "observation",
                                 detail |-> "agents_left"]
        /\ previousObservations[a].nearbyAgents # <<>>

\* the action_completion triggers for a move that the last step raised on a
MoveCompletions(a) ==
    SelectSeq(lastTriggers, LAMBDA g :
        g = [agent |-> a, type |-> "action_completion", detail |-> "move"])

\* the movement of agent a towards its goal is under way and not overdue:
\* its frame at the predicted duration completes it
UnderWay(a) ==
    \E i \in DOMAIN anims[a] :
        LET an == anims[a][i]
        IN  /\ an.target = agents[a].goalTarget.x
            /\ Speed * (an.elapsed - 1) < Distance(an.target, an.start)

\* C9: while the simulation runs, an agent whose currentAction is move towards
\* a point has a movement to that point under way, and the frame that
\* completes a movement runs at the first tick at or after distance / speed,
\* puts the agent at the target, makes it idle with no goalTarget and raises
\* exactly one action_completion trigger for the move
C9_MoveCompletes ==
    [][\A a \in AgentIds :
        /\ ( /\ simulationRunning'
             /\ agents'[a].currentAction = "move"
             /\ agents'[a].goalTarget.kind = "point" ) => UnderWay(a)'
        /\ lastOp' = Op("frame", a, "completed") =>
             \E i \in DOMAIN anims[a] :
                LET an == anims[a][i]
                    distance == Distance(an.target, an.start)
                IN  /\ anims'[a] = Unregister(RemoveAt(anims[a], i))
                    /\ Speed * an.elapsed >= distance
                    /\ Speed * (an.elapsed - 1) < distance
                    /\ agents'[a].position = an.target
                    /\ agents'[a].currentAction = "idle"
                    /\ agents'[a].goalTarget = NoTarget
                    /\ Len(MoveCompletions(a)') = 1
      ]_vars

\* the agent has reached the far point after the two seconds the four grid
\* units take, is idle again and its next decision has been requested
C9_Witness ==
    /\ lastOp = Op("frame", "agent1", "completed")
    /\ agents["agent1"].position = 0
    /\ agents["agent1"].currentAction = "idle"
    /\ agents["agent1"].goalTarget = NoTarget
    /\ Len(MoveCompletions("agent1")) = 1
    /\ requests["agent1"] # <<>>

\* a step dispatched a decision request of agent a: it has one request more
\* at the oracle, or as many after one of them was answered
Dispatched(a) ==
    \/ Len(requests'[a]) > Len(requests[a])
    \/ /\ Len(requests'[a]) = Len(requests[a])
       /\ lastOp'.agent = a
       /\ lastOp'.name \in {"broker", "forced"}

NewlyCollected ==
    {c \in DOMAIN worldObjects :
        ~worldObjects[c].collected /\ worldObjects'[c].collected}

\* the step is a coin-collection check of the running simulation
CoinCheck == lastOp'.name = "cycle" /\ simulationRunning

\* the coin lies within the collection radius of the agent
InReach(c, a) ==
    Distance(worldObjects[c].position, agents[a].position) <= CollectionRadius

\* between two regenerations a coin is collected once, and every collection
\* is credited to the one agent that collected the coin
CollectedOnce ==
    lastOp' # Op("reset", "", "done") =>
        /\ \A c \in DOMAIN worldObjects :
            worldObjects[c].collected =>
                /\ worldObjects'[c].collected
                /\ worldObjects'[c].collector = worldObjects[c].collector
        /\ \A c \in NewlyCollected : worldObjects'[c].collector \in Roster
        /\ \A a \in AgentIds :
            agents'[a].coinsCollected = agents[a].coinsCollected
                + Cardinality({c \in NewlyCollected :
                                  worldObjects'[c].collector = a})

\* C11: a coin within the collection radius of an agent at a coin-collection
\* check is collected at that check; between two regenerations a coin is
\* collected at most once and credited to exactly one agent
C11_CoinInReachCollected ==
    [][/\ CoinCheck =>
            \A c \in DOMAIN worldObjects :
                (~worldObjects[c].collected /\ \E a \in Roster : InReach(c, a))
                    => worldObjects'[c].collected
       /\ CollectedOnce
      ]_vars

\* C11 as the code has it: a coin within the collection radius of an agent at
\* a coin-collection check stays uncollected at that check only if that agent
\* collects another coin at it; between two regenerations a coin is collected
\* at most once and credited to exactly one agent
C11_CoinInReachCollectedUnlessBusy ==
    [][/\ CoinCheck =>
            \A c \in DOMAIN worldObjects : \A a \in Roster :
                (~worldObjects[c].collected /\ InReach(c, a))
                    => \/ worldObjects'[c].collected
                       \/ \E e \in NewlyCollected :
                            e # c /\ worldObjects'[e].collector = a
       /\ CollectedOnce
      ]_vars

\* Alice has collected, at two checks, the two coins that lay within her reach
C11_Witness ==
    /\ lastOp.name = "cycle"
    /\ \A c \in DOMAIN worldObjects :
        /\ worldObjects[c].collected
        /\ worldObjects[c].collector = "agent1"
        /\ worldObjects[c].position = -3
    /\ agents["agent1"].coinsCollected = 2

\* agent a comes before agent b in the registry
Before(a, b) ==
    \E i, j \in DOMAIN agentOrder :
        i < j /\ agentOrder[i] = a /\ agentOrder[j] = b

Inboxes == [a \in AgentIds |-> agents[a].receivedTexts]

\* C12: a decision that lacks what its action needs changes nothing: the
\* agent stays idle, its goalTarget and its utterance stay as they were and
\* no inbox is written (every decision of this oracle is malformed)
C12_MalformedChangesNothing ==
    [][\A a \in AgentIds :
        (lastOp'.agent = a /\ lastOp'.result = "decision") =>
            /\ agents'[a].currentAction = "idle"
            /\ agents'[a].goalTarget = agents[a].goalTarget
            /\ agents'[a].currentUtterance = agents[a].currentUtterance
            /\ Inboxes' = Inboxes
      ]_vars


\* what a decision may change of an agent, and the inboxes
Applied(a) ==
    [currentAction |-> agents[a].currentAction,
     goalTarget |-> agents[a].goalTarget,
     currentUtterance |-> agents[a].currentUtterance,
     position |-> agents[a].position,
     inboxes |-> Inboxes]

\* C13: a decision that arrives after the simulation has been stopped is not
\* applied: the agent's currentAction, goalTarget, utterance and position and
\* every inbox are as they were before the response arrived
C13_StoppedDecisionNotApplied ==
    [][\A a \in AgentIds :
        ( /\ ~simulationRunning
          /\ lastOp'.agent = a
          /\ lastOp'.result = "decision" ) => Applied(a)' = Applied(a)
      ]_vars


\* what the callbacks of an action show of an agent
Shown(a) ==
    [position |-> agents[a].position,
     currentAction |-> agents[a].currentAction,
     currentUtterance |-> agents[a].currentUtterance]

\* C14: while the simulation is stopped, no movement callback and no action
\* timer changes an agent's position, currentAction or utterance (no request
\* is in flight at a stop here, so that every callback and timer that runs
\* while the simulation is stopped was started before the stop)
C14_StopCancelsCallbacks ==
    [][( /\ ~simulationRunning
         /\ lastOp'.name \in {"frame", "textTimeout", "idleTimeout"} )
            => \A a \in AgentIds : Shown(a)' = Shown(a)
      ]_vars


\* the agent rests: it chose to idle, its five seconds are running, and it
\* neither awaits a decision nor has asked for one
Resting(a) ==
    /\ agents[a].currentAction = "idle"
    /\ \E i \in DOMAIN timers[a] : timers[a][i].kind = "idle"
    /\ ~agents[a].isMakingDecision
    /\ requests[a] = <<>>

\* C15: forceAgentDecision on an agent that moves, speaks or rests dispatches
\* no request, leaves the agent's inbox as it is and changes no agent
C15_ForceOnBusyIsSilent ==
    [][\A a \in Roster :
        ( /\ lastOp'.name = "force"
          /\ lastOp'.agent = a
          /\ (agents[a].currentAction \in {"move", "text"} \/ Resting(a)) )
            => /\ requests' = requests
               /\ agents' = agents
               /\ handed' = handed
      ]_vars


\* the received_text triggers of the last step that were raised on agent b
TextTriggersOn(b) ==
    SelectSeq(lastTriggers, LAMBDA g : g.agent = b /\ g.type = "received_text")

\* C16: after a step of the running simulation that has delivered a message
\* to an agent, that agent is idle and a decision request of its own that was
\* handed the message is at the oracle
C16_TextAlwaysInterrupts ==
    \A b \in Roster :
        (simulationRunning /\ TextTriggersOn(b) # <<>>) =>
            /\ agents[b].currentAction = "idle"
            /\ requests[b] # <<>>
            /\ \A i \in DOMAIN agents[b].receivedTexts :
                /\ agents[b].receivedTexts[i].read
                /\ handed[agents[b].receivedTexts[i].timestamp] = 1


\* the triggers of a given type and detail that the last step raised on a
Raised(a, type, detail) ==
    SelectSeq(lastTriggers, LAMBDA g :
        g.agent = a /\ g.type = type /\ g.detail = detail)

\* agent a has become the speaker of a message to another agent b in the
\* step: the oracle's text decision for a was executed (every decision of
\* this oracle is a text to Alice or to Bob)
Speaks(a, b) ==
    /\ a # b
    /\ lastOp'.agent = a
    /\ lastOp'.result = "decision"
    /\ agents'[a].currentUtterance.to = Name(b)

\* C17: the step in which a sender enters Speaking with a message for another
\* agent appends the message to the recipient's inbox and raises received_text
\* on the recipient, while the sender's display window has all its time left
\* and no action_completion(text) is raised on the sender; the step that ends
\* the display window raises it and delivers nothing
C17_DeliveredBeforeDisplayEnds ==
    [][/\ \A a, b \in Roster :
            Speaks(a, b) =>
                /\ agents'[a].currentAction = "text"
                /\ Len(agents'[b].receivedTexts)
                       = Len(agents[b].receivedTexts) + 1
                /\ LET t == agents'[b].receivedTexts[Len(agents'[b].receivedTexts)]
                   IN  t.sender = Name(a) /\ t.message = agents'[a].currentUtterance.text
                /\ TextTriggersOn(b)' # <<>>
                /\ Raised(a, "action_completion", "text")' = <<>>
                /\ \E i \in DOMAIN timers'[a] :
                      timers'[a][i].kind = "text" /\ timers'[a][i].left = TextTicks
       /\ \A a \in Roster :
            lastOp' = Op("textTimeout", a, "") =>
                /\ Len(Raised(a, "action_completion", "text")') = 1
                /\ \A b \in AgentIds :
                      Len(agents'[b].receivedTexts) = Len(agents[b].receivedTexts)
                /\ \A b \in Roster : TextTriggersOn(b)' = <<>>
      ]_vars

\* Alice has just begun to show her message to Bob, who has it in his inbox
\* and was triggered by it, while her display window has three seconds left
C17_Witness ==
    /\ lastOp = Op("broker", "agent1", "decision")
    /\ agents["agent1"].currentAction = "text"
    /\ agents["agent1"].currentUtterance = Utterance("Bob", "hi")
    /\ Len(agents["agent2"].receivedTexts) = 1
    /\ agents["agent2"].receivedTexts[1].sender = "Alice"
    /\ TextTriggersOn("agent2") # <<>>
    /\ timers["agent1"] = <<[kind |-> "text", left |-> TextTicks, loop |-> 0]>>
    /\ simulationRunning


\* the agent does something that an observation may interrupt, and neither
\* awaits a decision nor has asked for one
Busy(a) ==
    /\ agents[a].currentAction \in {"move", "text"} \/ Resting(a)
    /\ ~agents[a].isMakingDecision
    /\ requests[a] = <<>>

\* the observation triggers about coins that the last step raised on agent a
ObjectTriggersOn(a) ==
    SelectSeq(lastTriggers, LAMBDA g :
        /\ g.agent = a
        /\ g.type = "observation"
        /\ g.detail \in {"new_objects", "objects_left"})

\* C18: an observation cycle that raises a trigger about coins on an agent
\* that moves, speaks or rests with no decision in flight leaves the agent
\* where it is with no movement of its own alive, idle, with no goalTarget,
\* and with a decision request at the oracle
C18_ObjectTriggerInterrupts ==
    [][\A a \in Roster :
        ( /\ lastOp'.name = "cycle"
          /\ ObjectTriggersOn(a)' # <<>>
          /\ Busy(a) )
            => /\ anims'[a] = <<>>
               /\ agents'[a].position = agents[a].position
               /\ agents'[a].currentAction = "idle"
               /\ agents'[a].goalTarget = NoTarget
               /\ requests'[a] # <<>>
      ]_vars


\* the triggers of the last step on agent a are all about agents in sight
OnlyPresenceTriggersOn(a) ==
    /\ TriggersOn(a) # <<>>
    /\ \A i \in DOMAIN TriggersOn(a) :
        /\ TriggersOn(a)[i].type = "observation"
        /\ TriggersOn(a)[i].detail \in {"new_agents", "agents_left"}

\* C19: an observation cycle that raises only triggers about agents in sight
\* on an agent that moves, speaks or rests changes nothing of that agent and
\* dispatches no decision request for it
C19_PresenceTriggerOnlyWhenIdle ==
    [][\A a \in Roster :
        ( /\ lastOp'.name = "cycle"
          /\ OnlyPresenceTriggersOn(a)'
          /\ Busy(a) )
            => /\ agents'[a] = agents[a]
               /\ requests'[a] = requests[a]
      ]_vars


\* the last uncollected coin of the world is collected in this step
LastCoinCollected ==
    ~AreAllCoinsCollected(Cur) /\ AreAllCoinsCollected(Cur)'

\* the all_coins_collected triggers that the last step raised on agent a
AllCoinsTriggersOn(a) ==
    SelectSeq(lastTriggers, LAMBDA g :
        g.agent = a /\ g.type = "all_coins_collected")

\* C21: the step in which the last coin is collected raises one
\* all_coins_collected trigger on every agent and sends a decision request
\* to the oracle for every agent, whatever the agent is doing and whether or
\* not it has a decision in flight; no other step raises that trigger
C21_AllCollectedNotifiesEveryAgent ==
    [][/\ LastCoinCollected =>
            \A a \in Roster :
                /\ Len(AllCoinsTriggersOn(a)') = 1
                /\ Len(requests'[a]) > Len(requests[a])
       /\ ~LastCoinCollected =>
            \A a \in AgentIds : AllCoinsTriggersOn(a)' = <<>>
      ]_vars

\* the event alone: one trigger on every agent, in that step only
AllCollectedRaisedOnce ==
    [][/\ LastCoinCollected =>
            \A a \in Roster : Len(AllCoinsTriggersOn(a)') = 1
       /\ ~LastCoinCollected =>
            \A a \in AgentIds : AllCoinsTriggersOn(a)' = <<>>
      ]_vars

\* the agents with no decision in flight get their request
AllCollectedReachesTheFree ==
    [][LastCoinCollected =>
            \A a \in Roster : ~agents[a].isMakingDecision =>
                Len(requests'[a]) > Len(requests[a])
      ]_vars


\* the agent that the start loop k asks after its stagger delay
NextInLoop(k) == agentOrder[initLoops[k].idx + 1]

\* C22: start() leaves every agent idle and sends the initial request of the
\* first agent of the registry; after each stagger delay the request of the
\* next agent is sent, none is skipped, and the loop never waits for the
\* rest of an agent while later agents of the registry are still to be asked
C22_InitialRequestsStaggered ==
    [][/\ lastOp' = Op("start", "", "started") =>
            /\ \A a \in Roster : agents'[a].currentAction = "idle"
            /\ Len(requests'[agentOrder[1]]) > Len(requests[agentOrder[1]])
       /\ \A k \in 1..MaxStarts :
            /\ (lastOp'.name = "stagger" /\ initLoops[k].phase = "delay") =>
                    Len(requests'[NextInLoop(k)]) > Len(requests[NextInLoop(k)])
            /\ initLoops'[k].phase = "rest" =>
                    initLoops'[k].idx = Len(agentOrder)
      ]_vars


\* C23: when resetSimulation has returned, the simulation does not run and
\* no interval timer is alive, every agent is idle with no goalTarget, no
\* utterance and an empty inbox, every coin is uncollected, and the
\* conversation history is empty
C23_ResetLeavesInitialState ==
    lastOp = Op("reset", "", "done") =>
        /\ ~simulationRunning
        /\ ~observationInterval
        /\ intervals = 0
        /\ \A a \in Roster :
            /\ agents[a].currentAction = "idle"
            /\ agents[a].goalTarget = NoTarget
            /\ agents[a].currentUtterance = NoUtterance
            /\ agents[a].receivedTexts = <<>>
        /\ \A c \in DOMAIN worldObjects : ~worldObjects[c].collected
        /\ conversationHistory = {}


\* two agents and an oracle that lets them talk to Bob or to a name that no
\* agent has
StrangerMenu == {Decision("text", AgentTarget(n), "hi") : n \in {"Bob", "Nobody"}}

OracleStranger == OracleDecidesFrom(StrangerMenu)

NextStranger ==
    \/ StartFirst
    \/ StartProceeds
    \/ StaggerElapses
    \/ OracleStranger
    \/ OracleFails
    \/ TimerFires
    \/ ObservationCycle
    \/ Tick

SpecStranger == Init /\ [][NextStranger]_vars

\* the last step executed a text decision of agent a for a name of no agent
TextToNobody(a) ==
    /\ lastOp = Op("broker", a, "decision")
    /\ agents[a].currentAction = "text"
    /\ agents[a].currentUtterance.to = "Nobody"

\* C24: the step that executes a text decision addressed to a name that no
\* agent has appends to no inbox, delivers no message and raises no
\* received_text trigger on anyone
C24_UnknownRecipientDropsMessage ==
    [][\A a \in Roster :
        TextToNobody(a)' =>
            /\ msgClock' = msgClock
            /\ \A b \in AgentIds :
                /\ agents'[b].receivedTexts = agents[b].receivedTexts
                /\ TextTriggersOn(b)' = <<>>
      ]_vars

\* Alice has said something to a name of no agent and nothing was delivered
C24_Witness ==
    /\ TextToNobody("agent1")
    /\ agents["agent1"].currentUtterance = Utterance("Nobody", "hi")
    /\ msgClock = 0
    /\ \A b \in AgentIds : agents[b].receivedTexts = <<>>
    /\ lastTriggers = <<>>
    /\ simulationRunning


\* the operations of the registry and of the broker, called by the other
\* modules and by the client with any agent id; a call is a step whose
\* outcome is what the operation returns
UpdateMenu == {[currentAction |-> "move", goalTarget |-> PointTarget(0)]}

\* the ids the operations are called with: one of an agent, one of none
CallIds == {"agent1", "agent2"}

CallUpdateAgentState ==
    \E a \in CallIds : \E updates \in UpdateMenu :
        Commit(Done(UpdateAgentState(Cur, a, updates),
                    "updateAgentState", a, "undefined"))

CallResetAgent ==
    \E a \in CallIds :
        Commit(Done(ResetAgent(Cur, a, ConfigPosition(a)),
                    "resetAgent", a, "undefined"))

CallIncrementCoinCount ==
    \E a \in CallIds :
        Commit(Done(IncrementCoinCount(Cur, a),
                    "incrementCoinCount", a, "undefined"))

CallAddReceivedText ==
    \E a \in CallIds :
        Commit(Done(AddReceivedText(Cur, a, "Alice", "hi"),
                    "addReceivedText", a, "undefined"))

CallGetAndClearReceivedTexts ==
    \E a \in CallIds :
        Commit(Done(MarkAllRead(Cur, a), "getAndClearReceivedTexts", a,
                    IF UnreadTexts(Cur, a) = <<>> THEN "[]" ELSE "texts"))

CallRequestDecisionFromBrain ==
    \E a \in CallIds :
        Commit(Done(RequestDecisionFromBrain(Cur, a, 0),
                    "requestDecisionFromBrain", a, "undefined"))

CallTriggerDecision ==
    \E a \in CallIds :
        Commit(Done(TriggerDecision(Cur, a, "action_completion", "text"),
                    "triggerDecision", a, "undefined"))

ForceCall == ForceOf(CallIds)

\* a registry of Alice alone, so that the id of Bob is unknown
NextRegistry ==
    \/ StartStopped
    \/ StartProceeds
    \/ ForceCall
    \/ CallUpdateAgentState
    \/ CallResetAgent
    \/ CallIncrementCoinCount
    \/ CallAddReceivedText
    \/ CallGetAndClearReceivedTexts
    \/ CallRequestDecisionFromBrain
    \/ CallTriggerDecision

SpecRegistry == InitSolo /\ [][NextRegistry]_vars

\* what the program holds: every variable but the two that only record the
\* last step
ProgramState ==
    <<agentOrder, agents, worldObjects, previousObservations,
      simulationRunning, observationInterval, intervals, cycleDue,
      conversationHistory, anims, timers, requests, initLoops,
      pendingResets, msgClock, handed>>

\* the last step was a call of an operation with the id of no agent
UnknownIdCall ==
    /\ lastOp.name \in {"updateAgentState", "resetAgent", "incrementCoinCount",
                        "addReceivedText", "getAndClearReceivedTexts",
                        "requestDecisionFromBrain", "force", "triggerDecision"}
    /\ lastOp.agent \in AgentIds \ Roster

\* C25 as stated: an operation called with the id of no agent changes
\* nothing of what the program holds and returns a value that tells the
\* caller of the failure
C25_UnknownIdReturnsFailure ==
    [][UnknownIdCall' =>
        /\ ProgramState' = ProgramState
        /\ lastOp'.result # "undefined"
      ]_vars

\* C25: an operation called with the id of no agent changes nothing of what
\* the program holds; forceAgentDecision returns null, the inbox drain an
\* empty list, and the others return nothing
C25_UnknownIdChangesNothing ==
    [][UnknownIdCall' =>
        /\ ProgramState' = ProgramState
        /\ lastOp'.result = CASE lastOp'.name = "force" -> "null"
                              [] lastOp'.name = "getAndClearReceivedTexts" -> "[]"
                              [] OTHER -> "undefined"
      ]_vars

\* Bob, who is not in the registry, was to be reset while the simulation
\* runs and Alice has a coin and an unread message
C25_Witness ==
    /\ lastOp = Op("resetAgent", "agent2", "undefined")
    /\ simulationRunning
    /\ agents["agent1"].coinsCollected = 1
    /\ UnreadTexts(Cur, "agent1") # <<>>
    /\ agents["agent2"] = AgentBody("agent2")


\* checkForInterestingChangesAll up to the i-th agent of the registry: the
\* state in which the diff of that agent is computed
BeforeDiffOf(s, i) ==
    LET step(x, j) == IF j < i /\ j <= Len(x.agentOrder)
                      THEN CheckForInterestingChanges(x, x.agentOrder[j])
                      ELSE x
    IN  step(step(step(s, 1), 2), 3)

\* C26: in the observation cycle that is due, the diff of every agent is
\* computed in a state in which the cycle has not yet sent a decision
\* request for any agent nor changed any agent
C26_DiffsBeforeRequests ==
    (simulationRunning /\ cycleDue > 0) =>
        \A i \in DOMAIN agentOrder :
            /\ BeforeDiffOf(Cur, i).requests = requests
            /\ BeforeDiffOf(Cur, i).agents = agents

\* the snapshot of every agent is the one it would take at the beginning of
\* the cycle
SnapshotsOfOneWorld ==
    (simulationRunning /\ cycleDue > 0) =>
        \A i \in DOMAIN agentOrder :
            Observe(BeforeDiffOf(Cur, i), agentOrder[i]) = Observe(Cur, agentOrder[i])


\* one agent and an oracle that lets it rest or names an action the program
\* does not have
OddMenu == {Decision("idle", NoTarget, ""), Decision("say", NoTarget, "hi")}

OracleOdd == OracleDecidesFrom(OddMenu)

NextOdd ==
    \/ StartStopped
    \/ StartProceeds
    \/ OracleOdd
    \/ OracleFails
    \/ TimerFires
    \/ ObservationCycle
    \/ Tick

SpecOdd == InitSolo /\ [][NextOdd]_vars

\* the values of currentAction that the program gives a meaning: 'idle' for
\* an agent that waits or rests, 'move' and 'text'
ActionStates == {"idle", "move", "text"}

\* C27: the currentAction of every agent is one of the action states of the
\* program, whatever action the oracle has named in its decisions
C27_CurrentActionIsAnActionState ==
    \A a \in AgentIds : agents[a].currentAction \in ActionStates


\* C28: as time passes, a decision request that is at the oracle is ended,
\* by the answer of the oracle or else by a timeout of the request
C28_RequestIsEnded ==
    TimePasses =>
        \A a \in AgentIds : (requests[a] # <<>>) ~> (requests[a] = <<>>)


\* the observation triggers that the last step raised on agent a
ObservationTriggersOn(a) ==
    SelectSeq(lastTriggers, LAMBDA g : g.agent = a /\ g.type = "observation")

\* two snapshots show the same agents and the same coins
SameIds(p, q) ==
    /\ SeqToSet(p.nearbyAgents) = SeqToSet(q.nearbyAgents)
    /\ SeqToSet(p.worldObjects) = SeqToSet(q.worldObjects)

\* C29: an observation cycle of a running simulation stores for every agent
\* the snapshot it has just computed, whatever became of the triggers it
\* raised, and raises no observation trigger on an agent whose snapshot
\* shows the agents and coins that the stored one shows
C29_ObservationEdgeTriggered ==
    [][(lastOp'.name = "cycle" /\ simulationRunning) =>
        \A a \in Roster :
            /\ previousObservations'[a] = Observe(Cur, a)
            /\ SameIds(previousObservations[a], Observe(Cur, a)) =>
                    ObservationTriggersOn(a)' = <<>>
      ]_vars

\* a cycle has raised an observation trigger on Bob, who walks; the trigger
\* led to no request, and the snapshot just computed is stored
C29_Witness ==
    /\ lastOp.name = "cycle"
    /\ ObservationTriggersOn("agent2") # <<>>
    /\ agents["agent2"].currentAction = "move"
    /\ ~agents["agent2"].isMakingDecision
    /\ requests["agent2"] = <<>>
    /\ previousObservations["agent2"].nearbyAgents = <<"agent1">>
    /\ previousObservations["agent2"] = Observe(Cur, "agent2")


\* this step executes an idle decision of agent a: it arms the timeout of
\* executeIdle
IdleDecisionOf(a) ==
    /\ lastOp'.agent = a
    /\ lastOp'.result = "decision"
    /\ Len(timers'[a]) > Len(timers[a])
    /\ timers'[a][Len(timers'[a])].kind = "idle"

\* the action_completion(idle) triggers that the last step raised on agent a
IdleCompletionsOn(a) ==
    SelectSeq(lastTriggers, LAMBDA g :
        /\ g.agent = a
        /\ g.type = "action_completion"
        /\ g.detail = "idle")

\* C30: the step that executes an idle decision leaves the agent with a
\* currentAction other than the 'idle' of an agent that waits, and with a
\* timeout of the full rest ahead; the step in which that timeout runs
\* leaves the agent idle and raises action_completion(idle) on it once
C30_RestIsAStateOfItsOwn ==
    [][\A a \in Roster :
        /\ IdleDecisionOf(a) =>
            /\ agents'[a].currentAction # "idle"
            /\ timers'[a][Len(timers'[a])].left = IdleTicks
        /\ lastOp' = Op("idleTimeout", a, "") =>
            /\ agents'[a].currentAction = "idle"
            /\ Len(IdleCompletionsOn(a)') = 1
            /\ Len(lastTriggers') = 1
      ]_vars

\* what holds of it: the rest lasts its full time and ends with one
\* action_completion(idle)
RestEndsWithOneCompletion ==
    [][\A a \in Roster :
        /\ IdleDecisionOf(a) =>
            timers'[a][Len(timers'[a])].left = IdleTicks
        /\ lastOp' = Op("idleTimeout", a, "") =>
            /\ agents'[a].currentAction = "idle"
            /\ Len(IdleCompletionsOn(a)') = 1
            /\ Len(lastTriggers') = 1
      ]_vars


\* the grid points an agent may stand at
WorldSpots == {ConfigPosition(a) : a \in AgentIds} \cup MoveTargets \cup CoinSpots
                 \cup {-2, -1, 1, 2}

\* the state in which agent a stands at p
StandingAt(a, p) == [Cur EXCEPT !.agents[a].position = p]

\* C31: wherever an agent stands, a coin that is collected is not among the
\* objects of the snapshot the agent takes, hence not among those sent to
\* the oracle, and not among the new objects of its diff
C31_CollectedCoinNeverVisible ==
    \A a \in Roster : \A c \in DOMAIN worldObjects : \A p \in WorldSpots :
        worldObjects[c].collected =>
            /\ c \notin SeqToSet(GetVisibleObjects(StandingAt(a, p), a))
            /\ c \notin SeqToSet(Diff(previousObservations[a],
                                      Observe(StandingAt(a, p), a)).newObjects)

\* Alice stands next to a coin that is collected, and next to one that is not
C31_Witness ==
    /\ worldObjects["coin_0"].collected
    /\ ~worldObjects["coin_1"].collected
    /\ Distance(worldObjects["coin_0"].position, agents["agent1"].position)
           <= ObservationRadius
    /\ GetVisibleObjects(Cur, "agent1") = <<"coin_1">>
    /\ lastOp.name = "cycle"


\* C32: a decision is applied only to an agent that is idle: in the step
\* that executes a decision of an agent, the agent was idle before
C32_DecisionOnlyFromIdle ==
    [][\A a \in Roster :
        (lastOp'.agent = a /\ lastOp'.result = "decision") =>
            agents[a].currentAction = "idle"
      ]_vars


\* the agent of SpecOdd when the timers and the passing of time are not
\* starved
FairOdd ==
    /\ InitSolo
    /\ [][NextOdd]_vars
    /\ WF_vars(TimerFires)
    /\ WF_vars(Tick)

\* the oracle keeps answering: no request stays with it for ever
OracleAnswers == \A a \in AgentIds : []<>(requests[a] = <<>>)

\* C33: when time keeps passing and the oracle keeps answering, an agent of
\* a running simulation whose currentAction is not idle is idle again later
C33_AlwaysBackToIdle ==
    (TimePasses /\ OracleAnswers) =>
        \A a \in AgentIds :
            (simulationRunning /\ agents[a].currentAction # "idle")
                ~> (agents[a].currentAction = "idle")


\* C34: no agent has more than one animate closure alive, and a frame that
\* changes the position of an agent finds the agent with currentAction 'move'
C34_OneInterpolationWhileMoving ==
    [][\A a \in Roster :
        /\ Len(anims'[a]) <= 1
        /\ ( /\ lastOp'.name = "frame"
             /\ lastOp'.agent = a
             /\ agents'[a].position # agents[a].position )
                => agents[a].currentAction = "move"
      ]_vars

\* the second half alone
FrameMovesOnlyTheMoving ==
    [][\A a \in Roster :
        ( /\ lastOp'.name = "frame"
          /\ lastOp'.agent = a
          /\ agents'[a].position # agents[a].position )
            => agents[a].currentAction = "move"
      ]_vars

\* the first half alone
OneClosurePerAgent == \A a \in Roster : Len(anims[a]) <= 1


\* a trigger of this step has interrupted what agent a was doing
InterruptedByTrigger(a) ==
    /\ TextTriggersOn(a)' # <<>> \/ ObjectTriggersOn(a)' # <<>>
    /\ agents[a].currentAction # "idle"
    /\ agents'[a].currentAction = "idle"
    /\ timers[a] # <<>>

\* C35: the completion timeout of an action that a received_text or object
\* trigger interrupts is not left pending, since the callback of a pending
\* timeout sets the agent idle, clears its utterance and raises
\* action_completion whatever the agent does by then
C35_InterruptedTimeoutCancelled ==
    [][\A a \in Roster : InterruptedByTrigger(a) => timers'[a] = <<>>]_vars

\* what a timeout that is left pending does: in a running simulation the
\* timeout of a text would run only while the agent still shows that text,
\* and that of a rest only while the agent still rests
TimeoutOnlyInItsAction ==
    [][\A a \in Roster :
        /\ (simulationRunning /\ lastOp' = Op("textTimeout", a, "")) =>
            /\ agents[a].currentAction = "text"
            /\ agents[a].currentUtterance # NoUtterance
        /\ (simulationRunning /\ lastOp' = Op("idleTimeout", a, "")) =>
            /\ agents[a].currentAction = "idle"
            /\ ~agents[a].isMakingDecision
      ]_vars


\* one agent, a client that starts, stops and resets in any order, also
\* starting a simulation that already runs, and an oracle that answers idle
\* or an action the simulator does not know
NextRestart ==
    \/ StartSimulation
    \/ StartProceeds
    \/ StartFails
    \/ Stop
    \/ Reset
    \/ ResetProceeds
    \/ OracleOdd
    \/ ObservationCycle
    \/ Tick

SpecRestart == InitSolo /\ [][NextRestart]_vars

\* C36: at most one observation-cycle interval timer is alive in any state,
\* whatever the order of the start, stop and reset calls, and when stop has
\* returned no interval timer is alive
C36_OneObservationTimer ==
    /\ intervals <= 1
    /\ lastOp.name = "stop" => intervals = 0

\* the second half alone: a stop leaves no interval timer
StopLeavesNoInterval == lastOp.name = "stop" => intervals = 0

\* the timer whose id the simulator holds is alive, and none is alive once
\* the field is null
StoredIntervalAlive ==
    /\ observationInterval => intervals >= 1
    /\ (~observationInterval /\ intervals > 0) => lastOp.name # "load"


\* a decision request of agent a leaves for the oracle in the step
DispatchedFor(a) == Len(requests'[a]) > Len(requests[a])

\* the simulation is stopped and no start has been called since
StoppedForGood ==
    /\ ~simulationRunning
    /\ \A k \in 1..MaxStarts : initLoops[k].phase # "fetch"

\* C37: from the return of stop until the next call of start no decision
\* request leaves for the oracle, whether from the observation cycle, from
\* a trigger, from the timeout of an action or from the loop of initial
\* decisions of the earlier start
C37_NoDispatchAfterStop ==
    [][\A a \in Roster : ~(StoppedForGood /\ DispatchedFor(a))]_vars

\* after a stop the cycle, the triggers and the timeouts dispatch nothing:
\* a request that leaves then comes from the loop of initial decisions
OnlyTheLoopDispatchesAfterStop ==
    [][\A a \in Roster : (StoppedForGood /\ DispatchedFor(a)) =>
            lastOp'.name = "stagger"]_vars


\* the coins that are collected
CollectedCoins == {c \in DOMAIN worldObjects : worldObjects[c].collected}

\* the coins that agent a collects in the step
CollectedInStepBy(a) ==
    {c \in DOMAIN worldObjects :
        /\ ~worldObjects[c].collected
        /\ worldObjects'[c].collected
        /\ worldObjects'[c].collector = a}

\* the sum of coinsCollected over the agents at and after place i of the
\* registry
RECURSIVE CoinsFrom(_)
CoinsFrom(i) ==
    IF i > Len(agentOrder) THEN 0
    ELSE agents[agentOrder[i]].coinsCollected + CoinsFrom(i + 1)

CoinsConserved == CoinsFrom(1) = Cardinality(CollectedCoins)

\* C38: in every reachable state the counters of the agents add up to the
\* number of collected coins, a step adds to the counter of an agent the
\* coins that agent collects in it and to no other counter, and a counter
\* goes down in a reset only
C38_CoinsConserved ==
    [][/\ CoinsConserved
       /\ CoinsConserved'
       /\ \A a \in Roster :
            /\ agents'[a].coinsCollected >= agents[a].coinsCollected =>
                   agents'[a].coinsCollected =
                       agents[a].coinsCollected
                           + Cardinality(CollectedInStepBy(a))
            /\ agents'[a].coinsCollected < agents[a].coinsCollected =>
                   lastOp'.name = "reset"
      ]_vars

\* the steps alone: each collection is credited once, to its collector, and
\* only a reset takes coins from a counter
CollectionsCredited ==
    [][\A a \in Roster :
            /\ agents'[a].coinsCollected >= agents[a].coinsCollected =>
                   agents'[a].coinsCollected =
                       agents[a].coinsCollected
                           + Cardinality(CollectedInStepBy(a))
            /\ agents'[a].coinsCollected < agents[a].coinsCollected =>
                   lastOp'.name = "reset"
      ]_vars

\* an agent that resetSimulation resets has no more coins than are collected
ResetAgentsConserved ==
    \A a \in Roster :
        HardCodedPosition(a) # <<>> =>
            agents[a].coinsCollected
                = Cardinality({c \in CollectedCoins :
                                  worldObjects[c].collector = a})


\* the scenario of the strangers, with timeouts that fire and time that
\* passes whenever they can
FairStranger ==
    /\ Init
    /\ [][NextStranger]_vars
    /\ WF_vars(TimerFires)
    /\ WF_vars(Tick)

\* C39: when time keeps passing and the oracle keeps answering, an agent
\* that has executed a text decision addressed to a name that no agent has
\* later has no utterance, later is idle, and later has a decision request
\* with the oracle
C39_UnknownRecipientSenderFreed ==
    (TimePasses /\ OracleAnswers) => \A a \in AgentIds :
        /\ TextToNobody(a) ~> (agents[a].currentUtterance = NoUtterance)
        /\ TextToNobody(a) ~> (agents[a].currentAction = "idle")
        /\ TextToNobody(a) ~> (requests[a] # <<>>)

\* the step that executes a text decision addressed to a name that no agent
\* has arms no timeout for the sender
UnknownRecipientArmsNoTimeout ==
    [][\A a \in Roster : TextToNobody(a)' => timers'[a] = timers[a]]_vars


\* two agents and an oracle that lets them talk to Bob, or fails, with
\* timeouts that fire and time that passes whenever they can
InboxMenu == {Decision("text", AgentTarget("Bob"), "hi")}

OracleInbox == OracleDecidesFrom(InboxMenu)

NextInbox ==
    \/ StartFirst
    \/ StartProceeds
    \/ StaggerElapses
    \/ OracleInbox
    \/ OracleFails
    \/ TimerFires
    \/ ObservationCycle
    \/ Tick

FairInbox ==
    /\ Init
    /\ [][NextInbox]_vars
    /\ WF_vars(TimerFires)
    /\ WF_vars(Tick)

\* message m lies in the inbox of agent b and has not been read
UnreadIn(b, m) ==
    \E i \in DOMAIN agents[b].receivedTexts :
        /\ agents[b].receivedTexts[i].timestamp = m
        /\ ~agents[b].receivedTexts[i].read

\* the last step has delivered message m to an agent while a decision
\* request of that agent was with the oracle, so that the received_text
\* trigger was skipped and the message lies unread in the inbox
DeliveredInFlight(m) ==
    /\ simulationRunning
    /\ msgClock = m
    /\ handed[m] = 0
    /\ \E b \in Roster :
        /\ TextTriggersOn(b) # <<>>
        /\ requests[b] # <<>>
        /\ UnreadIn(b, m)

\* every request is answered again and again
OracleKeepsUp == []<>(\A a \in AgentIds : requests[a] = <<>>)

\* C40: when time keeps passing and the oracle keeps answering, a message
\* delivered to an agent whose decision request is in flight, which then
\* lies unread in the inbox of the agent, is handed to the oracle in a later
\* request
C40_MessageInFlightNotLost ==
    (TimePasses /\ OracleKeepsUp) =>
        \A m \in 1..MaxMessages : DeliveredInFlight(m) ~> (handed[m] = 1)

\* the first half of it: a message that a skipped received_text trigger has
\* announced lies in the inbox, unread
InFlightMessageKept ==
    \A b \in Roster : \A m \in 1..MaxMessages :
        ( /\ simulationRunning
          /\ msgClock = m
          /\ handed[m] = 0
          /\ TextTriggersOn(b) # <<>>
          /\ requests[b] # <<>> ) => UnreadIn(b, m)

====
